---- MODULE Spec2Model ----
(***************************************************************************)
(* Streaming orchestration of app/llm_service.py: stream_openai (one       *)
(* producer task run_call feeding an asyncio.Queue, one consumer loop that *)
(* coalesces tokens into chunks), its fallback replay stream_fallback, and *)
(* the message adapter _lc_messages.                                       *)
(*                                                                         *)
(* Text is a sequence of one-character strings; a token and a chunk are    *)
(* such sequences, token_buffer is a sequence of tokens (a Python list of  *)
(* str) and "".join is Flatten.  Time is counted in units of 0.05 s.       *)
(***************************************************************************)
EXTENDS Integers, Sequences, FiniteSets, TLC

\* ------------------------------------------------------------------------
\* Bounds of the model
\* ------------------------------------------------------------------------
\* number of tokens the provider delivers in one call
MaxTokens == 2
\* number of leading call-establishment failures the upstream injects
MaxInject == 2
\* AQUA_TOKEN_BUFFER_SIZE (llm_service.py:16, default 48), scaled down
TOKEN_BUFFER_SIZE == 2

\* ------------------------------------------------------------------------
\* Program constants (time unit 0.05 s)
\* ------------------------------------------------------------------------
\* AQUA_TOKEN_FLUSH_INTERVAL default 0.05 s
DEFAULT_FLUSH_INTERVAL == 1
\* stop_after_attempt(3) of the retry decorator
STOP_AFTER_ATTEMPT == 3
\* timeout=0.2 of the poll on queue.get()
POLL_TIMEOUT == 4
\* a setting of AQUA_TOKEN_FLUSH_INTERVAL longer than the poll timeout
LongFlushInterval == POLL_TIMEOUT + 1

\* elapsed times from this value on are not told apart: the clock is only
\* read after a full poll timeout and compared with the flush interval
ClockCap == LongFlushInterval - POLL_TIMEOUT

\* tokens the provider may deliver; the first is the empty string
Tokens == { <<>>, <<"a">>, <<"b", "c">> }

\* the requests of the model, each the roles of its messages, oldest first
MessageLists == { << "User" >>, << "moderator" >>, << "User", "moderator" >> }

\* the three warning texts, abbreviated to a few symbols each; as in the
\* source (51, 44 and 56 characters against a threshold of 48) the timeout
\* warning is shorter than the buffer threshold and the other two are not
RATE_LIMIT_WARNING == << "OpenAI quota exceeded. Switching to fallback...", "\n" >>
TIMEOUT_WARNING == << "LLM request timed out. Using fallback...\n" >>
UNEXPECTED_WARNING == << "Unexpected error with LLM backend. Using fallback...", "\n" >>

Warnings == { RATE_LIMIT_WARNING, TIMEOUT_WARNING, UNEXPECTED_WARNING }

\* app/utils.py FALLBACK_TEXT, character by character ("uXXXX" stands for
\* the single non-ASCII character with that code point)
FALLBACK_TEXT ==
    <<
       "<", "!", "-", "-", "F", "A", "L", "L", "B", "A", "C", "K", "-", "-",
       ">", "u00F0", "u0178", "u0178", " ", "O", "o", "p", "s", "!", " ", "J", "u", "s",
       "t", " ", "a", " ", "h", "e", "a", "d", "s", "-", "u", "p", ":", " ",
       "*", "*", "S", "O", "R", "R", "Y", "*", "*", "\n" >> \o
    <<
       "I", "'", "m", " ", "t", "r", "a", "i", "n", "e", "d", " ", "s", "p",
       "e", "c", "i", "f", "i", "c", "a", "l", "l", "y", " ", "i", "n", " ",
       "*", "*", "a", "q", "u", "a", "c", "u", "l", "t", "u", "r", "e", ",",
       " ", "a", "g", "r", "i", "c", "u", "l", "t", "u", "r", "e", ",", " ",
       "f", "i", "s", "h", ",", " ", "a", "n", "d", " ", "p", "o", "u", "l",
       "t", "r", "y", "*", "*", " ", "t", "o", "p", "i", "c", "s", ".", "\n" >> \o
    <<
       "I", " ", "w", "a", "s", " ", "d", "e", "v", "e", "l", "o", "p", "e",
       "d", " ", "b", "y", " ", "*", "*", "A", "q", "u", "a", "n", "e", "x",
       " ", "S", "y", "s", "t", "e", "m", "s", "*", "*", ",", " ", "s", "o",
       " ", "t", "h", "a", "t", "'", "s", " ", "m", "y", " ", "s", "p", "e",
       "c", "i", "a", "l", "t", "y", "!", "\n" >> \o
    <<
       "P", "l", "e", "a", "s", "e", " ", "a", "s", "k", " ", "m", "e", " ",
       "s", "o", "m", "e", "t", "h", "i", "n", "g", " ", "i", "n", " ", "t",
       "h", "o", "s", "e", " ", "a", "r", "e", "a", "s", " ", "u00E2", "u20AC", "u201D",
       " ", "I", "'", "d", " ", "l", "o", "v", "e", " ", "t", "o", " ", "h",
       "e", "l", "p", "!", " ", "u00F0", "u0178", "u2122" >>

\* ------------------------------------------------------------------------
\* Pure helpers
\* ------------------------------------------------------------------------
RECURSIVE Flatten(_)
\* "".join(parts): the concatenation of a list of strings
Flatten(parts) ==
    IF parts = <<>> THEN <<>> ELSE Head(parts) \o Flatten(Tail(parts))

RECURSIVE SumLen(_)
\* sum(len(t) for t in token_buffer)
SumLen(parts) ==
    IF parts = <<>> THEN 0 ELSE Len(Head(parts)) + SumLen(Tail(parts))

\* the characters str.split() treats as separators that occur in the text
IsSpace(c) == c \in { " ", "\n" }

\* positions at which a word of the text starts
WordStarts(text) ==
    { i \in 1 .. Len(text) :
        ~IsSpace(text[i]) /\ (i = 1 \/ IsSpace(text[i - 1])) }

\* position at which the word starting at s ends
WordEnd(text, s) ==
    CHOOSE j \in s .. Len(text) :
        /\ \A k \in s .. j : ~IsSpace(text[k])
        /\ j = Len(text) \/ IsSpace(text[j + 1])

\* str.split() without argument: the maximal runs of non-whitespace
\* characters, in order; no empty words
Split(text) ==
    LET starts == WordStarts(text)
        nth(k) == CHOOSE s \in starts :
                      Cardinality({ t \in starts : t <= s }) = k
    IN  [ k \in 1 .. Cardinality(starts) |->
            SubSeq(text, nth(k), WordEnd(text, nth(k))) ]

\* the words stream_fallback iterates over
FallbackWords == Split(FALLBACK_TEXT)

\* a replay that forgets the space after the word
FallbackToken_NoSpace(i) == FallbackWords[i]

\* the token stream_fallback yields for the i-th word: word + " "
FallbackToken(i) == Append(FallbackWords[i], " ")

\* str.lower() on the roles of the model
Lower(role) ==
    CASE role = "User" -> "user"
      [] OTHER -> role

RECURSIVE _lc_messages(_)
\* the LangChain message classes of the messages; raised is TRUE when a
\* role is none of system, user, assistant (ValueError "Unsupported role")
_lc_messages(msgs) ==
    IF msgs = <<>> THEN [raised |-> FALSE, lc_msgs |-> <<>>]
    ELSE LET role == Lower(Head(msgs))
             rest == _lc_messages(Tail(msgs))
         IN  IF role \notin { "system", "user", "assistant" }
             THEN [raised |-> TRUE, lc_msgs |-> <<>>]
             ELSE IF rest.raised THEN rest
             ELSE [raised |-> FALSE,
                   lc_msgs |-> << CASE role = "system" -> "SystemMessage"
                                    [] role = "user" -> "HumanMessage"
                                    [] OTHER -> "AIMessage" >> \o rest.lc_msgs]

\* ------------------------------------------------------------------------
\* State
\* ------------------------------------------------------------------------
VARIABLES
    messages,      \* roles of the request's messages, oldest first
    flush_interval,\* _TOKEN_FLUSH_INTERVAL as configured
    inject,        \* upstream: the first `inject` calls fail to establish
    calls,         \* number of llm.ainvoke calls started
    call_task,     \* state of the background task running run_call
    exc,           \* exception travelling from ainvoke to run_call
    queue,         \* asyncio.Queue of tokens
    done,          \* asyncio.Event done
    error_marker,  \* class of the exception stored, or "None"
    token_buffer,  \* coalescing buffer, a list of tokens
    since_flush,   \* loop.time() - last_flush, capped at ClockCap
    pc,            \* where the stream_openai generator is suspended
    pending,       \* how the try block was left when finally started
    result,        \* how the generator ended
    out,           \* chunks yielded so far, in order
    produced,      \* tokens passed to on_llm_new_token, in order
    fb_pc,         \* where the stream_fallback generator is suspended
    fb_i,          \* number of fallback words yielded
    interrupt,     \* what the consumer did to stop the stream, if anything
    auth_header,   \* request.headers.get("Authorization") of the request
    API_AUTH_TOKEN,\* settings.API_AUTH_TOKEN
    auth_result,   \* what verify_header_auth returned or raised
    frames,        \* the locals of each concurrent stream_openai invocation
    requests       \* each concurrent invocation: generator, task, output

vars == << messages, flush_interval, inject, calls, call_task, exc, queue, done,
           error_marker, token_buffer, since_flush, pc, pending,
           result, out, produced, fb_pc, fb_i, interrupt,
           auth_header, API_AUTH_TOKEN, auth_result, frames, requests >>

producer_vars == << calls, call_task, exc, queue, done, error_marker, produced >>

env_vars == << messages, flush_interval, inject >>

\* the request gateway's variables (app/auth.py)
gateway_vars == << auth_header, API_AUTH_TOKEN, auth_result >>

\* the variables of two invocations running side by side
pair_vars == << frames, requests >>

\* the variables of the single invocation
stream_vars == << messages, flush_interval, inject, calls, call_task, exc,
                  queue, done, error_marker, token_buffer, since_flush, pc,
                  pending, result, out, produced, fb_pc, fb_i, interrupt >>

\* settings of AQUA_TOKEN_FLUSH_INTERVAL
FlushIntervals == { DEFAULT_FLUSH_INTERVAL, LongFlushInterval }

\* The state after the call stream_openai(messages, model) has returned, or
\* after stream_fallback() has (pc = "direct").  The tenacity wrapper calls
\* the function once; calling an async generator function runs none of its
\* body and cannot raise, so the first attempt always "succeeds" with the
\* generator object and no further attempt is made.
StreamInit ==
    /\ pc \in { "created", "direct" }
    /\ messages \in IF pc = "created" THEN MessageLists ELSE { << "User" >> }
    /\ flush_interval \in IF pc = "created" THEN FlushIntervals
                        ELSE { DEFAULT_FLUSH_INTERVAL }
    /\ inject \in IF pc = "created" THEN 0 .. MaxInject ELSE { 0 }
    /\ calls = 0
    /\ call_task = "none"
    /\ exc = "None"
    /\ queue = <<>>
    /\ done = FALSE
    /\ error_marker = "None"
    /\ token_buffer = <<>>
    /\ since_flush = 0
    /\ pending = "none"
    /\ result = "none"
    /\ out = <<>>
    /\ produced = <<>>
    /\ fb_pc = "idle"
    /\ fb_i = 0
    /\ interrupt = "none"

\* ------------------------------------------------------------------------
\* Request gateway: app/auth.py.  A str is a sequence of characters; a value
\* that may be None is a record with a flag.
\* ------------------------------------------------------------------------
BEARER == << "B", "e", "a", "r", "e", "r", " " >>

\* request.headers.get("Authorization") when the header is absent
NoHeader == [ present |-> FALSE, value |-> <<>> ]

\* settings.API_AUTH_TOKEN when it is not configured
NoToken == [ set |-> FALSE, value |-> <<>> ]

\* Authorization headers of the requests considered
HeaderPrefixes ==
    { BEARER, << "b", "e", "a", "r", "e", "r", " " >>,
      << "B", "e", "a", "r", "e", "r" >>, << "B", "a", "s", "i", "c", " " >>,
      <<>> }

HeaderRests ==
    { <<>>, << "s", "3" >>, << "s", "3", " " >>, << " ", "s", "3" >>, << "x" >> }

Headers ==
    { NoHeader } \cup
    { [ present |-> TRUE, value |-> p \o r ] : p \in HeaderPrefixes, r \in HeaderRests }

\* settings of API_AUTH_TOKEN considered
ConfiguredTokens ==
    { NoToken } \cup
    { [ set |-> TRUE, value |-> v ] :
        v \in { <<>>, << "s", "3" >>, << "s", "3", " " >>, << "x" >> } }

\* s.startswith(p)
StartsWith(s, p) == Len(s) >= Len(p) /\ SubSeq(s, 1, Len(p)) = p

\* s.split(" ", 1): at most one split, at the first space
SplitOnce(s) ==
    LET spaces == { i \in 1 .. Len(s) : s[i] = " " }
    IN  IF spaces = {} THEN << s >>
        ELSE LET i == CHOOSE i \in spaces : \A j \in spaces : i <= j
             IN  << SubSeq(s, 1, i - 1), SubSeq(s, i + 1, Len(s)) >>

\* HTTPException(status_code=401, detail=...)
Unauthorized(detail) ==
    [ outcome |-> "HTTPException", status_code |-> 401, detail |-> detail,
      token |-> <<>> ]

\* a check that takes any configured value, the empty string included
validate_token_AnyConfigured(token) ==
    LET valid_tokens == IF API_AUTH_TOKEN.set
                        THEN << API_AUTH_TOKEN.value >> ELSE <<>>
    IN  \A i \in 1 .. Len(valid_tokens) : valid_tokens[i] # token

\* validate_token(token): TRUE when it raises, FALSE when it returns None
validate_token(token) ==
    LET valid_tokens == IF API_AUTH_TOKEN.set /\ API_AUTH_TOKEN.value # <<>>
                        THEN << API_AUTH_TOKEN.value >> ELSE <<>>
    IN  \A i \in 1 .. Len(valid_tokens) : valid_tokens[i] # token

\* no request has been authenticated
GatewayIdle ==
    /\ auth_header = NoHeader
    /\ API_AUTH_TOKEN = NoToken
    /\ auth_result = [ outcome |-> "none", status_code |-> 0, detail |-> "",
                       token |-> <<>> ]

\* verify_header_auth(request)
verify_header_auth ==
    /\ auth_result.outcome = "none"
    /\ auth_result' =
         IF \/ ~auth_header.present
            \/ auth_header.value = <<>>
            \/ ~StartsWith(auth_header.value, BEARER)
         THEN Unauthorized("Unauthorized: Missing Bearer token")
         ELSE LET token == SplitOnce(auth_header.value)[2]
              IN  IF validate_token(token)
                  THEN Unauthorized("Unauthorized: Invalid or missing token")
                  ELSE [ outcome |-> "returned", status_code |-> 0,
                         detail |-> "", token |-> token ]
    /\ UNCHANGED << auth_header, API_AUTH_TOKEN, stream_vars, pair_vars >>

\* ------------------------------------------------------------------------
\* Two stream_openai invocations running side by side on one event loop.
\* queue, done, error_marker and token_buffer are locals of the call, held
\* in the frame of the invocation and shared with its Handler and run_call
\* through the closure; the configuration is the default one, where a poll
\* timeout always flushes a non-empty buffer.
\* ------------------------------------------------------------------------
Requests == { 1, 2 }

\* the frame whose locals invocation r and its callbacks read and write:
\* every call of stream_openai creates its own
LocalsOf_ModuleLevel(r) == 1

LocalsOf(r) == r

\* what the provider call of each request can deliver and raise
TokensOf(r) == IF r = 1 THEN { << "a" >>, << "b", "c" >> } ELSE { << "x" >> }

ErrorsOf(r) == IF r = 1 THEN { "RateLimitError" } ELSE { "AuthenticationError" }

NewFrame ==
    [ queue |-> <<>>, done |-> FALSE, error_marker |-> "None", token_buffer |-> <<>> ]

NewRequest ==
    [ pc |-> "created", call_task |-> "none", raised |-> "None", out |-> <<>>,
      produced |-> <<>> ]

\* no pair of requests is running
PairIdle ==
    /\ frames = [ r \in Requests |-> NewFrame ]
    /\ requests = [ r \in Requests |-> NewRequest ]

\* first __anext__ of invocation r: create_task(run_call()), and run_call
\* enters llm.ainvoke
PairStart(r) ==
    /\ requests[r].pc = "created"
    /\ requests' = [ requests EXCEPT ![r].pc = "wait", ![r].call_task = "invoking" ]
    /\ UNCHANGED << frames, stream_vars, gateway_vars >>

\* Handler.on_llm_new_token of invocation r
PairNewToken(r, token) ==
    /\ requests[r].call_task = "invoking"
    /\ Len(requests[r].produced) < MaxTokens
    /\ frames' = [ frames EXCEPT ![LocalsOf(r)].queue = Append(@, token) ]
    /\ requests' = [ requests EXCEPT ![r].produced = Append(@, token) ]
    /\ UNCHANGED << stream_vars, gateway_vars >>

\* Handler.on_llm_end of invocation r, and run_call returns
PairEnd(r) ==
    /\ requests[r].call_task = "invoking"
    /\ frames' = [ frames EXCEPT ![LocalsOf(r)].done = TRUE ]
    /\ requests' = [ requests EXCEPT ![r].call_task = "done" ]
    /\ UNCHANGED << stream_vars, gateway_vars >>

\* Handler.on_llm_error of invocation r
PairError(r, error) ==
    /\ requests[r].call_task = "invoking"
    /\ frames' = [ frames EXCEPT ![LocalsOf(r)].error_marker = error,
                                 ![LocalsOf(r)].done = TRUE ]
    /\ requests' = [ requests EXCEPT ![r].call_task = "raising", ![r].raised = error ]
    /\ UNCHANGED << stream_vars, gateway_vars >>

\* the except clauses of run_call of invocation r
PairExcept(r) ==
    /\ requests[r].call_task = "raising"
    /\ LET e == requests[r].raised
       IN  frames' =
             [ frames EXCEPT
                 ![LocalsOf(r)].error_marker =
                     IF e = "AuthenticationError" THEN "PermissionError" ELSE e,
                 ![LocalsOf(r)].queue =
                     IF e = "AuthenticationError" THEN @
                     ELSE IF e = "RateLimitError" THEN Append(@, RATE_LIMIT_WARNING)
                     ELSE Append(@, UNEXPECTED_WARNING),
                 ![LocalsOf(r)].done = TRUE ]
    /\ requests' = [ requests EXCEPT ![r].call_task = "done" ]
    /\ UNCHANGED << stream_vars, gateway_vars >>

\* queue.get() of invocation r returns a token: append, flush when large
PairGetToken(r) ==
    /\ requests[r].pc = "wait"
    /\ frames[LocalsOf(r)].queue # <<>>
    /\ LET f == frames[LocalsOf(r)]
           buf == Append(f.token_buffer, Head(f.queue))
       IN  IF SumLen(buf) >= TOKEN_BUFFER_SIZE
           THEN /\ frames' = [ frames EXCEPT ![LocalsOf(r)].queue = Tail(@),
                                            ![LocalsOf(r)].token_buffer = <<>> ]
                /\ requests' = [ requests EXCEPT ![r].pc = "yield_size",
                                                ![r].out = Append(@, Flatten(buf)) ]
           ELSE /\ frames' = [ frames EXCEPT ![LocalsOf(r)].queue = Tail(@),
                                            ![LocalsOf(r)].token_buffer = buf ]
                /\ UNCHANGED requests
    /\ UNCHANGED << stream_vars, gateway_vars >>

\* the code of invocation r from the completion check on: break, then the
\* error paths (the buffer is empty here), or back to the wait
PairCheckDone(r) ==
    LET f == frames[LocalsOf(r)]
    IN  requests' =
          [ requests EXCEPT ![r].pc =
              IF f.done /\ f.queue = <<>>
              THEN IF f.error_marker = "None" THEN "returned"
                   ELSE IF f.error_marker = "PermissionError" THEN "raised"
                   ELSE "fallback"
              ELSE "wait" ]

\* the consumer of invocation r asks for the next chunk after a size flush
PairResumeSize(r) ==
    /\ requests[r].pc = "yield_size"
    /\ requests' = [ requests EXCEPT ![r].pc = "wait" ]
    /\ UNCHANGED << frames, stream_vars, gateway_vars >>

\* the poll of invocation r times out: periodic flush, or the completion
\* check
PairPollTimeout(r) ==
    /\ requests[r].pc = "wait"
    /\ frames[LocalsOf(r)].queue = <<>>
    /\ IF frames[LocalsOf(r)].token_buffer # <<>>
       THEN /\ frames' = [ frames EXCEPT ![LocalsOf(r)].token_buffer = <<>> ]
            /\ requests' =
                 [ requests EXCEPT
                     ![r].pc = "yield_periodic",
                     ![r].out = Append(@, Flatten(frames[LocalsOf(r)].token_buffer)) ]
       ELSE /\ frames[LocalsOf(r)].done
            /\ PairCheckDone(r)
            /\ UNCHANGED frames
    /\ UNCHANGED << stream_vars, gateway_vars >>

\* the consumer of invocation r asks for the next chunk after a periodic
\* flush
PairResumePeriodic(r) ==
    /\ requests[r].pc = "yield_periodic"
    /\ PairCheckDone(r)
    /\ UNCHANGED << frames, stream_vars, gateway_vars >>

\* ------------------------------------------------------------------------
\* Producer: the task call_task running run_call, and the callbacks the
\* provider call makes on Handler.  Queue.put on an unbounded queue and
\* Event.set never suspend, so every callback body and every except clause
\* of run_call is one step.  The provider reports an error to on_llm_error
\* first and raises it afterwards; the two are separate steps because the
\* callback is awaited on the event loop before the exception reaches
\* run_call.
\* ------------------------------------------------------------------------
TaskTerminal == call_task \in { "done", "cancelled" }

\* exceptions the provider call can raise
ProviderErrors == { "AuthenticationError", "RateLimitError", "APIConnectionError" }

\* the call being made is one the upstream fails to establish
EstablishFails == calls <= inject

\* run_call starts: _lc_messages runs inside the try, so its ValueError is
\* caught by `except Exception`; otherwise llm.ainvoke is entered
RunCallStart ==
    /\ call_task = "pending"
    /\ IF _lc_messages(messages).raised
       THEN /\ error_marker' = "ValueError"
            /\ queue' = Append(queue, UNEXPECTED_WARNING)
            /\ done' = TRUE
            /\ call_task' = "done"
            /\ UNCHANGED calls
       ELSE /\ call_task' = "invoking"
            /\ calls' = calls + 1
            /\ UNCHANGED << error_marker, queue, done >>
    /\ UNCHANGED << exc, produced >>
    /\ UNCHANGED << gateway_vars, pair_vars, env_vars, token_buffer, since_flush, pc, pending,
                    result, out, fb_pc, fb_i, interrupt >>

\* Handler.on_llm_new_token
on_llm_new_token(token) ==
    /\ call_task = "invoking"
    /\ ~EstablishFails
    /\ Len(produced) < MaxTokens
    /\ queue' = Append(queue, token)
    /\ produced' = Append(produced, token)
    /\ UNCHANGED << calls, call_task, exc, done, error_marker >>
    /\ UNCHANGED << gateway_vars, pair_vars, env_vars, token_buffer, since_flush, pc, pending,
                    result, out, fb_pc, fb_i, interrupt >>

\* Handler.on_llm_end
on_llm_end ==
    /\ call_task = "invoking"
    /\ ~EstablishFails
    /\ done' = TRUE
    /\ call_task' = "ended"
    /\ UNCHANGED << calls, exc, queue, error_marker, produced >>
    /\ UNCHANGED << gateway_vars, pair_vars, env_vars, token_buffer, since_flush, pc, pending,
                    result, out, fb_pc, fb_i, interrupt >>

\* llm.ainvoke returns after on_llm_end and run_call returns
RunCallReturn ==
    /\ call_task = "ended"
    /\ call_task' = "done"
    /\ UNCHANGED << calls, exc, queue, done, error_marker, produced >>
    /\ UNCHANGED << gateway_vars, pair_vars, env_vars, token_buffer, since_flush, pc, pending,
                    result, out, fb_pc, fb_i, interrupt >>

\* Handler.on_llm_error; a call that fails to establish fails with a
\* connection error before any token
on_llm_error(error) ==
    /\ call_task = "invoking"
    /\ EstablishFails => error = "APIConnectionError"
    /\ error_marker' = error
    /\ done' = TRUE
    /\ exc' = error
    /\ call_task' = "raising"
    /\ UNCHANGED << calls, queue, produced >>
    /\ UNCHANGED << gateway_vars, pair_vars, env_vars, token_buffer, since_flush, pc, pending,
                    result, out, fb_pc, fb_i, interrupt >>

\* an except clause that starts the provider call again
RunCallExcept_CallAgain ==
    /\ call_task = "raising"
    /\ calls <= STOP_AFTER_ATTEMPT
    /\ exc' = "None"
    /\ call_task' = "pending"
    /\ UNCHANGED << calls, queue, done, error_marker, produced >>
    /\ UNCHANGED << gateway_vars, pair_vars, env_vars, token_buffer, since_flush, pc, pending,
                    result, out, fb_pc, fb_i, interrupt >>

\* the except clauses of run_call for an exception raised by llm.ainvoke
RunCallExcept ==
    /\ call_task = "raising"
    /\ CASE exc = "AuthenticationError" ->
              /\ error_marker' = "PermissionError"
              /\ UNCHANGED queue
         [] exc = "RateLimitError" ->
              /\ error_marker' = exc
              /\ queue' = Append(queue, RATE_LIMIT_WARNING)
         [] OTHER ->
              /\ error_marker' = exc
              /\ queue' = Append(queue, UNEXPECTED_WARNING)
    /\ done' = TRUE
    /\ exc' = "None"
    /\ call_task' = "done"
    /\ UNCHANGED << calls, produced >>
    /\ UNCHANGED << gateway_vars, pair_vars, env_vars, token_buffer, since_flush, pc, pending,
                    result, out, fb_pc, fb_i, interrupt >>

\* a timeout clause that forgets done.set()
RunCallTimeout_NoDone ==
    /\ call_task = "invoking"
    /\ error_marker' = "TimeoutError"
    /\ queue' = Append(queue, TIMEOUT_WARNING)
    /\ call_task' = "done"
    /\ UNCHANGED << calls, exc, produced, done >>
    /\ UNCHANGED << gateway_vars, pair_vars, env_vars, token_buffer, since_flush, pc, pending,
                    result, out, fb_pc, fb_i, interrupt >>

\* asyncio.wait_for(llm.ainvoke(...), timeout=_LLM_INVOKE_TIMEOUT) expires
\* while the call is streaming: the call is cancelled and
\* `except asyncio.TimeoutError` runs
RunCallTimeout ==
    /\ call_task = "invoking"
    /\ error_marker' = "TimeoutError"
    /\ queue' = Append(queue, TIMEOUT_WARNING)
    /\ done' = TRUE
    /\ call_task' = "done"
    /\ UNCHANGED << calls, exc, produced >>
    /\ UNCHANGED << gateway_vars, pair_vars, env_vars, token_buffer, since_flush, pc, pending,
                    result, out, fb_pc, fb_i, interrupt >>

\* ------------------------------------------------------------------------
\* Consumer: the body of the stream_openai generator.  pc names the await
\* or yield at which the generator is suspended; each action runs the code
\* from one suspension point to the next.
\* ------------------------------------------------------------------------
\* how the generator ends when the finally block is left normally
EndAs(how) == IF how = "return" THEN "StopAsyncIteration" ELSE how

\* the finally block is entered: wait_for(call_task, timeout=1.0) returns at
\* once when call_task has finished and the generator ends the way the try
\* block was left, otherwise the generator waits
EnterFinally(how, o, buf) ==
    /\ since_flush' = ClockCap
    /\ pending' = how
    /\ out' = o
    /\ token_buffer' = buf
    /\ IF call_task = "done"
       THEN pc' = "closed" /\ result' = EndAs(how)
       ELSE pc' = "cleanup" /\ UNCHANGED result
    /\ UNCHANGED << fb_pc, fb_i >>

\* `async for word in stream_fallback(): yield word` reaches the first word
StartFallback(o) ==
    /\ since_flush' = ClockCap
    /\ pc' = "fallback"
    /\ fb_pc' = "yielded"
    /\ fb_i' = 1
    /\ out' = Append(o, FallbackToken(1))
    /\ token_buffer' = <<>>
    /\ UNCHANGED << pending, result >>

\* `if error_marker:` after the loop and the leftover flush
ErrorPaths(o) ==
    IF error_marker = "None" THEN EnterFinally("return", o, <<>>)
    ELSE IF error_marker = "PermissionError"
         THEN EnterFinally("PermissionError", o, <<>>)
         ELSE StartFallback(o)

\* a loop exit that drops the leftover tokens
PostLoop_NoLeftover(o, buf) == ErrorPaths(o)

\* the code after `break`: flush any leftover tokens, then the error paths
PostLoop(o, buf) ==
    IF buf # <<>>
    THEN /\ pc' = "yield_leftover"
         /\ since_flush' = ClockCap
         /\ out' = Append(o, Flatten(buf))
         /\ token_buffer' = buf
         /\ UNCHANGED << pending, result, fb_pc, fb_i >>
    ELSE ErrorPaths(o)

\* back to the head of the loop: await wait_for(queue.get(), timeout=0.2)
BackToWait(o, buf, t) ==
    /\ pc' = "wait"
    /\ since_flush' = t
    /\ out' = o
    /\ token_buffer' = buf
    /\ UNCHANGED << pending, result, fb_pc, fb_i >>

\* a completion check that does not look at the queue
CheckDone_IgnoreQueue(o, buf, t) ==
    IF done THEN PostLoop(o, buf) ELSE BackToWait(o, buf, t)

\* `if done.is_set() and queue.empty(): break`
CheckDone(o, buf, t) ==
    IF done /\ queue = <<>> THEN PostLoop(o, buf) ELSE BackToWait(o, buf, t)

\* `if call_task.cancelled(): raise asyncio.CancelledError()`
CancelCheck(o, buf, t) ==
    IF call_task = "cancelled" THEN EnterFinally("CancelledError", o, buf)
    ELSE BackToWait(o, buf, t)

\* loop.time() - last_flush after a further d units of time; the clock is
\* read in the loop only, and once the loop is left the elapsed time is no
\* longer told apart (ClockCap)
Later(d) == IF since_flush + d < ClockCap THEN since_flush + d ELSE ClockCap

\* first __anext__: the locals are set up and run_call is launched
Start ==
    /\ pc = "created"
    /\ call_task = "none"
    /\ call_task' = "pending"
    /\ pc' = "wait"
    /\ since_flush' = 0
    /\ UNCHANGED << gateway_vars, pair_vars, env_vars, calls, exc, queue, done, error_marker, produced,
                    token_buffer, pending, result, out, fb_pc, fb_i, interrupt >>

\* a size test that flushes only above the threshold
GetToken_AboveThreshold(d) ==
    /\ pc = "wait"
    /\ queue # <<>>
    /\ LET token == Head(queue)
           buf == Append(token_buffer, token)
       IN  /\ queue' = Tail(queue)
           /\ IF SumLen(buf) > TOKEN_BUFFER_SIZE
              THEN /\ token_buffer' = <<>>
                   /\ since_flush' = 0
                   /\ out' = Append(out, Flatten(buf))
                   /\ pc' = "yield_size"
                   /\ UNCHANGED << pending, result, fb_pc, fb_i >>
              ELSE CancelCheck(out, buf, Later(d))
    /\ UNCHANGED << gateway_vars, pair_vars, env_vars, calls, call_task, exc, done, error_marker,
                    produced, interrupt >>

\* queue.get() returns a token after a wait shorter than the poll timeout:
\* append, flush when the buffer is large
GetToken(d) ==
    /\ pc = "wait"
    /\ queue # <<>>
    /\ LET token == Head(queue)
           buf == Append(token_buffer, token)
       IN  /\ queue' = Tail(queue)
           /\ IF SumLen(buf) >= TOKEN_BUFFER_SIZE
              THEN /\ token_buffer' = <<>>
                   /\ since_flush' = 0
                   /\ out' = Append(out, Flatten(buf))
                   /\ pc' = "yield_size"
                   /\ UNCHANGED << pending, result, fb_pc, fb_i >>
              ELSE CancelCheck(out, buf, Later(d))
    /\ UNCHANGED << gateway_vars, pair_vars, env_vars, calls, call_task, exc, done, error_marker,
                    produced, interrupt >>

\* the consumer asks for the next chunk after a size flush
ResumeSize ==
    /\ pc = "yield_size"
    /\ CancelCheck(out, token_buffer, since_flush)
    /\ UNCHANGED << gateway_vars, pair_vars, env_vars, producer_vars, interrupt >>

\* the queue stayed empty for the whole poll timeout: periodic flush, then
\* the completion check
PollTimeout ==
    /\ pc = "wait"
    /\ queue = <<>>
    /\ IF token_buffer # <<>> /\ since_flush + POLL_TIMEOUT >= flush_interval
       THEN /\ token_buffer' = <<>>
            /\ since_flush' = 0
            /\ out' = Append(out, Flatten(token_buffer))
            /\ pc' = "yield_periodic"
            /\ UNCHANGED << pending, result, fb_pc, fb_i >>
       ELSE CheckDone(out, token_buffer, Later(POLL_TIMEOUT))
    /\ UNCHANGED << gateway_vars, pair_vars, env_vars, producer_vars, interrupt >>

\* the consumer asks for the next chunk after a periodic flush
ResumePeriodic ==
    /\ pc = "yield_periodic"
    /\ CheckDone(out, token_buffer, since_flush)
    /\ UNCHANGED << gateway_vars, pair_vars, env_vars, producer_vars, interrupt >>

\* the consumer asks for the next chunk after the leftover flush
ResumeLeftover ==
    /\ pc = "yield_leftover"
    /\ ErrorPaths(out)
    /\ UNCHANGED << gateway_vars, pair_vars, env_vars, producer_vars, interrupt >>

\* the consumer closes the generator at one of the loop's yields
\* (GeneratorExit is raised at the yield)
CloseAtYield ==
    /\ pc \in { "yield_size", "yield_periodic", "yield_leftover" }
    /\ interrupt = "none"
    /\ interrupt' = "close"
    /\ EnterFinally("GeneratorExit", out, token_buffer)
    /\ UNCHANGED << gateway_vars, pair_vars, env_vars, producer_vars >>

\* the consumer's task is cancelled while the generator polls the queue
CancelAtWait ==
    /\ pc = "wait"
    /\ interrupt = "none"
    /\ interrupt' = "cancel"
    /\ EnterFinally("CancelledError", out, token_buffer)
    /\ UNCHANGED << gateway_vars, pair_vars, env_vars, producer_vars >>

\* ------------------------------------------------------------------------
\* stream_fallback, consumed directly (pc = "direct") or replayed by the
\* `async for` of stream_openai (pc = "fallback")
\* ------------------------------------------------------------------------
\* the generator is exhausted: the direct consumer gets StopAsyncIteration,
\* stream_openai's `async for` ends and it returns
FallbackEnd ==
    /\ fb_pc' = "ended"
    /\ IF pc = "direct"
       THEN /\ pc' = "closed"
            /\ result' = "StopAsyncIteration"
            /\ UNCHANGED << pending, out, token_buffer, fb_i >>
       ELSE /\ pending' = "return"
            /\ IF call_task = "done"
               THEN pc' = "closed" /\ result' = EndAs("return")
               ELSE pc' = "cleanup" /\ UNCHANGED result
            /\ UNCHANGED << out, token_buffer, fb_i >>

\* `for word in FALLBACK_TEXT.split(): yield word + " "`
FallbackYield ==
    IF fb_i < Len(FallbackWords)
    THEN /\ out' = Append(out, FallbackToken(fb_i + 1))
         /\ fb_i' = fb_i + 1
         /\ fb_pc' = "yielded"
         /\ UNCHANGED << pc, pending, result, token_buffer >>
    ELSE FallbackEnd

\* first __anext__ of a stream_fallback generator consumed directly
FallbackStart ==
    /\ pc = "direct"
    /\ fb_pc = "idle"
    /\ FallbackYield
    /\ UNCHANGED << gateway_vars, pair_vars, env_vars, producer_vars, since_flush, interrupt >>

\* the consumer asks for the next word: await asyncio.sleep(0.015)
FallbackResume ==
    /\ pc \in { "direct", "fallback" }
    /\ fb_pc = "yielded"
    /\ fb_pc' = "sleeping"
    /\ UNCHANGED << gateway_vars, pair_vars, env_vars, producer_vars, token_buffer, since_flush,
                    pc, pending, result, out, fb_i, interrupt >>

\* the sleep is over: next word, or the end of the text
FallbackSleepDone ==
    /\ pc \in { "direct", "fallback" }
    /\ fb_pc = "sleeping"
    /\ FallbackYield
    /\ UNCHANGED << gateway_vars, pair_vars, env_vars, producer_vars, since_flush, interrupt >>

\* an except clause that swallows the cancellation without `break`
FallbackCancel_NoBreak ==
    /\ pc \in { "direct", "fallback" }
    /\ fb_pc = "sleeping"
    /\ interrupt = "none"
    /\ interrupt' = "cancel"
    /\ FallbackYield
    /\ UNCHANGED << gateway_vars, pair_vars, env_vars, producer_vars, since_flush >>

\* the consumer's task is cancelled during the sleep: CancelledError is
\* caught and the loop is left with break
FallbackCancel ==
    /\ pc \in { "direct", "fallback" }
    /\ fb_pc = "sleeping"
    /\ interrupt = "none"
    /\ interrupt' = "cancel"
    /\ FallbackEnd
    /\ UNCHANGED << gateway_vars, pair_vars, env_vars, producer_vars, since_flush >>

\* the consumer closes the generator at a fallback word
FallbackClose ==
    /\ pc \in { "direct", "fallback" }
    /\ fb_pc = "yielded"
    /\ interrupt = "none"
    /\ interrupt' = "close"
    /\ IF pc = "direct"
       THEN /\ fb_pc' = "ended"
            /\ pc' = "closed"
            /\ result' = "GeneratorExit"
            /\ UNCHANGED << pending, out, token_buffer, fb_i, since_flush >>
       ELSE EnterFinally("GeneratorExit", out, token_buffer)
    /\ UNCHANGED << gateway_vars, pair_vars, env_vars, producer_vars >>

\* ------------------------------------------------------------------------
\* The finally block of stream_openai
\* ------------------------------------------------------------------------
\* a finally block that does not wait for call_task
CleanupTaskDone_NoWait ==
    /\ pc = "cleanup"
    /\ pc' = "closed"
    /\ result' = EndAs(pending)
    /\ UNCHANGED << gateway_vars, pair_vars, env_vars, producer_vars, token_buffer, since_flush,
                    pending, out, fb_pc, fb_i, interrupt >>

\* call_task finished within the grace period: the block ends and the
\* generator ends the way the try block was left
CleanupTaskDone ==
    /\ pc = "cleanup"
    /\ call_task = "done"
    /\ pc' = "closed"
    /\ result' = EndAs(pending)
    /\ UNCHANGED << gateway_vars, pair_vars, env_vars, producer_vars, token_buffer, since_flush,
                    pending, out, fb_pc, fb_i, interrupt >>

\* a grace period that expires without call_task being cancelled
CleanupTimeout_NoCancel ==
    /\ pc = "cleanup"
    /\ ~TaskTerminal
    /\ pc' = "closed"
    /\ result' = "CancelledError"
    /\ UNCHANGED << gateway_vars, pair_vars, env_vars, producer_vars, token_buffer, since_flush,
                    pending, out, fb_pc, fb_i, interrupt >>

\* the grace period expires: wait_for cancels call_task, waits until it is
\* cancelled and raises TimeoutError; `await call_task` then raises
\* CancelledError, which `except Exception` does not catch
CleanupTimeout ==
    /\ pc = "cleanup"
    /\ ~TaskTerminal
    /\ call_task' = "cancelled"
    /\ pc' = "closed"
    /\ result' = "CancelledError"
    /\ UNCHANGED << gateway_vars, pair_vars, env_vars, calls, exc, queue, done, error_marker, produced,
                    token_buffer, since_flush, pending, out, fb_pc,
                    fb_i, interrupt >>

\* the consumer's task is cancelled during the wait: wait_for cancels
\* call_task, waits until it is cancelled and re-raises CancelledError
CancelAtCleanup ==
    /\ pc = "cleanup"
    /\ ~TaskTerminal
    /\ interrupt = "none"
    /\ interrupt' = "cancel"
    /\ call_task' = "cancelled"
    /\ pc' = "closed"
    /\ result' = "CancelledError"
    /\ UNCHANGED << gateway_vars, pair_vars, env_vars, calls, exc, queue, done, error_marker, produced,
                    token_buffer, since_flush, pending, out, fb_pc,
                    fb_i >>

\* ------------------------------------------------------------------------
\* Specification
\* ------------------------------------------------------------------------
Producer ==
    \/ RunCallStart
    \/ \E token \in Tokens : on_llm_new_token(token)
    \/ on_llm_end
    \/ RunCallReturn
    \/ \E error \in ProviderErrors : on_llm_error(error)
    \/ RunCallExcept
    \/ RunCallTimeout

Consumer ==
    \/ Start
    \/ \E d \in 0 .. POLL_TIMEOUT - 1 : GetToken(d)
    \/ ResumeSize
    \/ PollTimeout
    \/ ResumePeriodic
    \/ ResumeLeftover
    \/ FallbackStart
    \/ FallbackResume
    \/ FallbackSleepDone
    \/ CleanupTaskDone
    \/ CleanupTimeout

\* what the consumer of the generator may do to stop the stream early
Interrupts ==
    \/ CloseAtYield
    \/ CancelAtWait
    \/ FallbackCancel
    \/ FallbackClose
    \/ CancelAtCleanup

Next == Producer \/ Consumer \/ Interrupts

\* one invocation of stream_openai or stream_fallback
Init == StreamInit /\ GatewayIdle /\ PairIdle

Spec == Init /\ [][Next]_vars

\* the event loop runs every task that is ready, every timer fires and the
\* consumer keeps asking for the next chunk; nothing obliges the consumer to
\* close the generator or to be cancelled
FairSpec == Spec /\ WF_vars(Producer) /\ WF_vars(Consumer)

\* no single invocation is being followed
StreamIdle ==
    /\ pc = "created"
    /\ messages = << "User" >>
    /\ flush_interval = DEFAULT_FLUSH_INTERVAL
    /\ inject = 0
    /\ StreamInit

\* one call of verify_header_auth, for every header and configured token
AuthInit ==
    /\ StreamIdle /\ PairIdle
    /\ auth_header \in Headers
    /\ API_AUTH_TOKEN \in ConfiguredTokens
    /\ auth_result = [ outcome |-> "none", status_code |-> 0, detail |-> "",
                       token |-> <<>> ]

AuthNext == verify_header_auth

AuthSpec == AuthInit /\ [][AuthNext]_vars

\* two invocations of stream_openai on one event loop
PairInit == StreamIdle /\ GatewayIdle /\ PairIdle

PairNext ==
    \E r \in Requests :
        \/ PairStart(r)
        \/ \E token \in TokensOf(r) : PairNewToken(r, token)
        \/ PairEnd(r)
        \/ \E error \in ErrorsOf(r) : PairError(r, error)
        \/ PairExcept(r)
        \/ PairGetToken(r)
        \/ PairResumeSize(r)
        \/ PairPollTimeout(r)
        \/ PairResumePeriodic(r)

PairSpec == PairInit /\ [][PairNext]_vars

TypeOK ==
    /\ messages \in MessageLists
    /\ _lc_messages(messages).lc_msgs \in Seq({ "SystemMessage", "HumanMessage", "AIMessage" })
    /\ flush_interval \in FlushIntervals
    /\ inject \in 0 .. MaxInject
    /\ calls \in 0 .. 1
    /\ call_task \in { "none", "pending", "invoking", "ended", "raising",
                       "done", "cancelled" }
    /\ exc \in ProviderErrors \cup { "None" }
    /\ done \in BOOLEAN
    /\ error_marker \in ProviderErrors \cup
                        { "None", "PermissionError", "TimeoutError", "ValueError" }
    /\ since_flush \in 0 .. ClockCap
    /\ pc \in { "created", "direct", "wait", "yield_size", "yield_periodic",
                "yield_leftover", "fallback", "cleanup", "closed" }
    /\ pending \in { "none", "return", "PermissionError", "CancelledError",
                     "GeneratorExit" }
    /\ result \in { "none", "StopAsyncIteration", "PermissionError",
                    "CancelledError", "GeneratorExit" }
    /\ fb_pc \in { "idle", "yielded", "sleeping", "ended" }
    /\ fb_i \in 0 .. Len(FallbackWords)
    /\ interrupt \in { "none", "close", "cancel" }

\* ------------------------------------------------------------------------
\* Vocabulary of the properties
\* ------------------------------------------------------------------------
\* everything the caller has received, as one text
Emitted == Flatten(out)

\* the generator is a stream_openai generator that has ended
OpenAIClosed == pc = "closed" /\ pending # "none"

\* the generator is a directly consumed stream_fallback that has ended
DirectClosed == pc = "closed" /\ pending = "none"

\* the consumer neither closed the generator nor was cancelled
Uninterrupted == interrupt = "none"

\* number of warning texts in a text (each starts with its own symbol)
WarningCount(text) ==
    Cardinality({ i \in 1 .. Len(text) : text[i] \in { Head(w) : w \in Warnings } })

\* the chunks of o from position n + 1 on are the whole fallback replay
EndsWithFallback(o, n) ==
    /\ Len(o) = n + Len(FallbackWords)
    /\ \A k \in 1 .. Len(FallbackWords) : o[n + k] = FallbackWords[k] \o << " " >>

\* ------------------------------------------------------------------------
\* Properties
\* ------------------------------------------------------------------------
\* C1: when the provider delivered its tokens and completed normally
\* (on_llm_end, no error stored) and the consumer read the stream to its
\* end, the concatenation of the chunks equals the concatenation of the
\* provider's tokens: nothing lost, duplicated, reordered or added.
C1_ChunksEqualTokens ==
    (OpenAIClosed /\ Uninterrupted /\ error_marker = "None")
        => /\ Emitted = Flatten(produced)
           /\ fb_i = 0

C1_Witness ==
    /\ OpenAIClosed /\ Uninterrupted /\ error_marker = "None"
    /\ result = "StopAsyncIteration"
    /\ Len(produced) >= 2
    /\ Len(out) >= 2

\* C2: a request with a role outside system, user, assistant fails with the
\* unsupported-role ValueError, yields no chunk (no warning, no fallback
\* word) and makes no upstream call.
C2_BadRoleFailsFast ==
    _lc_messages(messages).raised
        => /\ out = <<>>
           /\ calls = 0
           /\ (OpenAIClosed /\ Uninterrupted) => result = "ValueError"

\* C3: when the upstream call fails with an authentication error, no
\* warning token and no fallback word is ever emitted and a stream read to
\* its end ends by raising PermissionError.
C3_AuthErrorRaises ==
    error_marker \in { "AuthenticationError", "PermissionError" }
        => /\ fb_i = 0
           /\ WarningCount(Emitted) = 0
           /\ (OpenAIClosed /\ Uninterrupted) => result = "PermissionError"

\* C4: when the upstream call ends with a rate-limit error or a timeout,
\* the warning text has been emitted exactly once before the first fallback
\* word, and a stream read to its end ends normally with every word of the
\* fallback text in order after that one warning.
C4_WarningThenFallback ==
    error_marker \in { "RateLimitError", "TimeoutError" }
        => /\ fb_i >= 1 =>
                WarningCount(Flatten(SubSeq(out, 1, Len(out) - fb_i))) = 1
           /\ (OpenAIClosed /\ Uninterrupted) =>
                /\ result = "StopAsyncIteration"
                /\ WarningCount(Emitted) = 1
                /\ EndsWithFallback(out, Len(out) - fb_i)

\* C5: when establishing the provider call fails on the first two attempts
\* and would succeed on the third, a third call is made and the request
\* succeeds: no error, no warning, no fallback content.
C5_RetryEstablishes ==
    (OpenAIClosed /\ Uninterrupted /\ inject = 2
        /\ ~_lc_messages(messages).raised)
        => /\ calls = 3
           /\ result = "StopAsyncIteration"
           /\ WarningCount(Emitted) = 0
           /\ fb_i = 0

\* C6: whenever the output sequence of stream_openai is exhausted, however
\* it ended, call_task is completed or cancelled, never still running.
C6_TaskTerminalWhenExhausted ==
    OpenAIClosed => call_task \in { "done", "cancelled" }

C6_Witness ==
    /\ OpenAIClosed
    /\ result = "StopAsyncIteration"
    /\ fb_i = Len(FallbackWords)
    /\ call_task = "done"

\* C7: once the consumer has stopped consuming a started stream_openai
\* (closed it at a yield, or was cancelled in a wait), call_task eventually
\* is completed or cancelled, and it is so when control is back with the
\* consumer.
C7_TaskEndsAfterInterrupt ==
    /\ [](( pc = "closed" /\ interrupt # "none" /\ call_task # "none")
            => TaskTerminal)
    /\ ((interrupt # "none" /\ call_task # "none") ~> TaskTerminal)

C7_Witness ==
    /\ pc = "closed"
    /\ interrupt = "close"
    /\ result = "CancelledError"
    /\ call_task = "cancelled"

\* the text with every run of whitespace replaced by one space
Squeeze(text) ==
    LET kept == { i \in 1 .. Len(text) :
                    ~IsSpace(text[i]) \/ (i > 1 /\ ~IsSpace(text[i - 1])) }
        nth(k) == CHOOSE i \in kept : Cardinality({ j \in kept : j <= i }) = k
    IN  [ k \in 1 .. Cardinality(kept) |->
            IF IsSpace(text[nth(k)]) THEN " " ELSE text[nth(k)] ]

\* C8 as the code has it: stream_fallback read to its end emits one token
\* per word of the fallback text, the same on every run, and their
\* concatenation is the fallback text with each line break (each run of
\* whitespace) replaced by one space, followed by one more space.
C8_FallbackSqueezed ==
    (DirectClosed /\ Uninterrupted)
        => /\ Len(out) = Cardinality(WordStarts(FALLBACK_TEXT))
           /\ Emitted = Squeeze(FALLBACK_TEXT) \o << " " >>

C8_Witness ==
    /\ DirectClosed /\ Uninterrupted
    /\ result = "StopAsyncIteration"
    /\ Len(out) = 39

\* C8 as claimed: the concatenation equals the fallback text character for
\* character.
C8_FallbackExact ==
    (DirectClosed /\ Uninterrupted) => Emitted = FALLBACK_TEXT

\* the states of the orchestrator, read off the generator: it is Streaming
\* while it is in the loop, in Fallback once the replay has started,
\* Succeeded when it returned without a replay, Failed when it left the try
\* block by raising the stored PermissionError
Streaming == pc \in { "wait", "yield_size", "yield_periodic", "yield_leftover" }

Fallback == call_task # "none" /\ fb_pc # "idle"

Succeeded == pending = "return" /\ fb_pc = "idle"

Failed == pending = "PermissionError"

\* C9 as the code has it: however the provider call ends, under fair
\* scheduling the generator reaches Closed; a stream the consumer does not
\* interrupt gets there from Starting through Streaming and then exactly
\* one of Succeeded, Fallback or, when the stored error is a
\* PermissionError, Failed (it raises); it never starts again and never
\* returns from Fallback to Streaming.
C9_ReachesClosed ==
    /\ <>(pc = "closed")
    /\ []((OpenAIClosed /\ Uninterrupted)
            => \/ Succeeded /\ ~Fallback /\ ~Failed
               \/ Fallback /\ ~Succeeded /\ ~Failed
               \/ Failed /\ ~Succeeded /\ ~Fallback)
    /\ [][ /\ pc = "created" => (pc' = "created" \/ Streaming')
           /\ pc # "created" => pc' # "created"
           /\ Fallback => ~Streaming' ]_vars

C9_Witness ==
    /\ OpenAIClosed /\ Uninterrupted
    /\ Failed
    /\ result = "PermissionError"

\* C9 as claimed: a stream that reached Closed without being interrupted
\* has passed through Succeeded or Fallback.
C9_ClosedViaSucceededOrFallback ==
    (OpenAIClosed /\ Uninterrupted) => (Succeeded \/ Fallback)

\* C10: every chunk yielded by stream_openai is a non-empty string.
C10_ChunksNonEmpty ==
    \A i \in 1 .. Len(out) : out[i] # <<>>

\* C11: when the stream completed, fell back or was closed by the consumer
\* (the consumer's task was not cancelled), the finally block adds no
\* exception of its own: the generator ends the way the try block was left,
\* also when call_task had to be cancelled after the grace period.
C11_CleanupRaisesNothing ==
    (OpenAIClosed /\ interrupt # "cancel") => result = EndAs(pending)

\* the consumer has evaluated `if error_marker:` after the loop
OutcomeRead ==
    \/ pending \in { "return", "PermissionError" }
    \/ pc = "fallback"

\* C12: the outcome of the attempt (error_marker) is final when the
\* consumer reads it: in no interleaving does the producer change
\* error_marker after the consumer has read it.
C12_OutcomeFinalWhenRead ==
    [][ OutcomeRead => error_marker' = error_marker ]_vars

\* the symbols of the warning texts
WarningSymbols == UNION { { w[i] : i \in 1 .. Len(w) } : w \in Warnings }

NotWarning(c) == c \notin WarningSymbols

\* what the caller received before the first fallback word, without the
\* warning texts
ProviderPart == SelectSeq(Flatten(SubSeq(out, 1, Len(out) - fb_i)), NotWarning)

IsPrefix(s, t) == Len(s) <= Len(t) /\ s = SubSeq(t, 1, Len(s))

\* C13: what stream_openai has emitted of the provider's text is always a
\* prefix of the tokens produced, in production order; once the fallback
\* replay has started every token produced has been emitted before the
\* first fallback word, and what follows are fallback words only.
C13_TokensBeforeFallback ==
    call_task # "none"
        => /\ IsPrefix(ProviderPart, Flatten(produced))
           /\ fb_i >= 1 =>
                /\ ProviderPart = Flatten(produced)
                /\ \A k \in 1 .. fb_i :
                        out[Len(out) - fb_i + k] = FallbackToken(k)

C13_Witness ==
    /\ call_task # "none"
    /\ error_marker \in { "RateLimitError", "TimeoutError", "APIConnectionError" }
    /\ fb_i >= 2
    /\ Len(produced) >= 2
    /\ Flatten(produced) # <<>>
    /\ WarningCount(Emitted) = 1

\* C14: a non-empty buffer is flushed no later than flush_interval after
\* the last flush: when a poll that received no token ends with the
\* periodic flush, the time since the last flush (the time before the poll
\* plus the poll timeout) is at most flush_interval.
C14_FlushWithinInterval ==
    [][ (pc = "wait" /\ SumLen(token_buffer) > 0 /\ pc' = "yield_periodic")
            => since_flush + POLL_TIMEOUT <= flush_interval ]_vars

\* C15: whenever the loop waits for the next token the buffered tokens are
\* shorter in total than the threshold; an append that reaches the
\* threshold is followed at once by a flush of the whole buffer as one
\* chunk (the buffer is empty at the size-flush yield and the chunk just
\* emitted is at least the threshold long).
C15_BufferBelowThreshold ==
    /\ pc = "wait" => SumLen(token_buffer) < TOKEN_BUFFER_SIZE
    /\ pc = "yield_size"
        => /\ token_buffer = <<>>
           /\ Len(out[Len(out)]) >= TOKEN_BUFFER_SIZE

C15_Witness ==
    /\ pc = "wait"
    /\ SumLen(token_buffer) = TOKEN_BUFFER_SIZE - 1
    /\ \E i \in 1 .. Len(out) : Len(out[i]) >= TOKEN_BUFFER_SIZE

\* C16: a cancellation delivered to stream_fallback during the delay after
\* a word stops the replay: the step that delivers it emits no word and
\* ends the replay, and no word is emitted in any later step, whether
\* stream_fallback is consumed directly or replayed inside stream_openai.
C16_NoWordAfterCancel ==
    [][ /\ (fb_pc = "sleeping" /\ interrupt = "none" /\ interrupt' = "cancel")
            => (out' = out /\ fb_i' = fb_i /\ fb_pc' = "ended")
        /\ (fb_pc # "idle" /\ interrupt = "cancel")
            => (out' = out /\ fb_i' = fb_i) ]_vars

C16_Witness ==
    /\ OpenAIClosed
    /\ interrupt = "cancel"
    /\ fb_pc = "ended"
    /\ fb_i = 2
    /\ result = "StopAsyncIteration"

\* C17: one request starts at most STOP_AFTER_ATTEMPT provider calls, and
\* once a provider token has been received or a chunk has been emitted no
\* further provider call is started.
C17_NoCallMidStream ==
    [][ /\ calls' <= STOP_AFTER_ATTEMPT
        /\ (produced # <<>> \/ out # <<>>) => calls' = calls ]_vars

C17_Witness ==
    /\ OpenAIClosed /\ Uninterrupted
    /\ calls = 1
    /\ produced # <<>>
    /\ error_marker \in { "RateLimitError", "APIConnectionError" }
    /\ fb_i = Len(FallbackWords)

\* the symbols of a set of texts
SymbolsOf(texts) == UNION { { t[i] : i \in 1 .. Len(t) } : t \in texts }

\* what request r has emitted, as one text, without the warning texts
PairProviderPart(r) == SelectSeq(Flatten(requests[r].out), NotWarning)

\* C18: of two invocations running side by side each emits only text of
\* its own provider call, in production order, all of it when it has
\* ended; its error marker is set only when its own call raised, and its
\* outcome (return, fallback, PermissionError) is that of its own call.
C18_RequestsIndependent ==
    \A r \in Requests :
        /\ SymbolsOf({ PairProviderPart(r) }) \subseteq SymbolsOf(TokensOf(r))
        /\ IsPrefix(PairProviderPart(r), Flatten(requests[r].produced))
        /\ frames[r].error_marker # "None" => requests[r].raised \in ErrorsOf(r)
        /\ requests[r].pc = "returned"
            => /\ requests[r].raised = "None"
               /\ PairProviderPart(r) = Flatten(requests[r].produced)
        /\ requests[r].pc \in { "fallback", "raised" }
            => /\ requests[r].raised \in ErrorsOf(r)
               /\ PairProviderPart(r) = Flatten(requests[r].produced)

C18_Witness ==
    /\ requests[1].pc = "fallback"
    /\ requests[2].pc = "returned"
    /\ Len(requests[1].produced) = 2
    /\ Len(requests[2].produced) = 2
    /\ Len(requests[1].out) >= 2
    /\ Len(requests[2].out) >= 1

\* C19: verify_header_auth returns a token exactly when the header is
\* "Bearer " followed by the configured API_AUTH_TOKEN and that token is
\* configured and not empty, and the token returned is the configured one;
\* in every other case it raises HTTPException 401, in particular always
\* when API_AUTH_TOKEN is unset or empty.
C19_FailsClosed ==
    auth_result.outcome # "none"
        => /\ auth_result.outcome = "returned"
                <=> /\ auth_header.present
                    /\ API_AUTH_TOKEN.set
                    /\ API_AUTH_TOKEN.value # <<>>
                    /\ auth_header.value = BEARER \o API_AUTH_TOKEN.value
           /\ auth_result.outcome = "returned"
                => auth_result.token = API_AUTH_TOKEN.value
           /\ auth_result.outcome # "returned"
                => /\ auth_result.outcome = "HTTPException"
                   /\ auth_result.status_code = 401

C19_Witness ==
    /\ auth_result.outcome = "HTTPException"
    /\ auth_header.present /\ auth_header.value = BEARER
    /\ API_AUTH_TOKEN.set /\ API_AUTH_TOKEN.value = <<>>
====
